---- MODULE Spec2Model ----
(***************************************************************************)
(* arxiv_summarizer.py: a Streamlit script that queries the arXiv API,     *)
(* parses the Atom feed into a table sorted by publication date, and       *)
(* summarizes each abstract and the concatenation of all abstracts with a  *)
(* cached summarization pipeline.                                          *)
(*                                                                         *)
(* Python text is the sequence of its code points: len() is Len, s[i:j] is *)
(* SubSeq and + is \o.  Ord("abc") writes the text abc.  An optional value  *)
(* (a str or None) is a sequence of length at most one: <<>> is None and   *)
(* <<s>> is the str s.                                                     *)
(* The children of an XML element are kept per tag, in document order, so  *)
(* that find() is the first of them and findall() is all of them.          *)
(***************************************************************************)
EXTENDS Integers, Sequences, FiniteSets, TLC

\* Bounds of the model.
MaxEntries == 3
MaxCycles == 2

\* Defaults of summarize_text.
DefaultMaxLength == 140
DefaultMinLength == 30

None == <<>>
Str(s) == <<s>>

\* The printable characters of ASCII from U+0020 to U+005F and from U+0061 to
\* U+007E, in code point order.  U+0060, the grave accent, is in no literal.
PrintableLow == " !\"#$%&'()*+,-./0123456789:;<=>?@ABCDEFGHIJKLMNOPQRSTUVWXYZ[\\]^_"
PrintableHigh == "abcdefghijklmnopqrstuvwxyz{|}~"

\* ord(c) of a printable character of ASCII.
Code(c) ==
    IF \E i \in 1..Len(PrintableLow) : SubSeq(PrintableLow, i, i) = c
    THEN 31 + CHOOSE i \in 1..Len(PrintableLow) : SubSeq(PrintableLow, i, i) = c
    ELSE 96 + CHOOSE i \in 1..Len(PrintableHigh) : SubSeq(PrintableHigh, i, i) = c

\* The text of a literal of printable ASCII characters.
RECURSIVE Ord(_)
Ord(s) == IF Len(s) = 0 THEN <<>> ELSE <<Code(SubSeq(s, 1, 1))>> \o Ord(SubSeq(s, 2, Len(s)))

\* The empty str.
Empty == <<>>

\* Python truthiness of an optional str: None and "" are false.
Truthy(v) == v # None /\ v[1] # Empty

----------------------------------------------------------------------------
(* Strings *)

\* s[from:] of Python, with a 1-based index.
Drop(s, from) == SubSeq(s, from, Len(s))

\* `marker in text`
Contains(text, marker) ==
    \E i \in 1..(Len(text) - Len(marker) + 1) :
        SubSeq(text, i, i + Len(marker) - 1) = marker

StartsWith(text, prefix) ==
    Len(text) >= Len(prefix) /\ SubSeq(text, 1, Len(prefix)) = prefix

\* The characters str.strip() removes: the 29 code points for which
\* str.isspace() is true.  U+0009 to U+000D are tab, newline, vertical tab,
\* form feed and carriage return; U+001C to U+001F the separators of ASCII;
\* U+0020 the space; U+0085 the next line; U+00A0 the no-break space; U+1680
\* the ogham space; U+2000 to U+200A the spaces of fixed width; U+2028 and
\* U+2029 the line and paragraph separators; U+202F, U+205F and U+3000 the
\* narrow no-break, medium mathematical and ideographic spaces.
Whitespace ==
    (9..13) \cup (28..32) \cup {133, 160, 5760} \cup (8192..8202)
        \cup {8232, 8233, 8239, 8287, 12288}

RECURSIVE LStrip(_)
LStrip(s) ==
    IF Len(s) > 0 /\ s[1] \in Whitespace THEN LStrip(Drop(s, 2)) ELSE s

RECURSIVE RStrip(_)
RStrip(s) ==
    IF Len(s) > 0 /\ s[Len(s)] \in Whitespace
    THEN RStrip(SubSeq(s, 1, Len(s) - 1))
    ELSE s

\* str.strip()
Strip(s) == RStrip(LStrip(s))

\* a < b in the order of the encoded bytes, which is the order of the code
\* points.
RECURSIVE StrLess(_, _)
StrLess(a, b) ==
    IF b = Empty THEN FALSE
    ELSE IF a = Empty THEN TRUE
    ELSE IF a[1] # b[1] THEN a[1] < b[1]
    ELSE StrLess(Drop(a, 2), Drop(b, 2))

\* Join with the separator "," whatever sep is.
RECURSIVE JoinComma(_, _)
JoinComma(sep, parts) ==
    IF parts = <<>> THEN Empty
    ELSE IF Len(parts) = 1 THEN parts[1]
    ELSE parts[1] \o Ord(",") \o JoinComma(sep, Tail(parts))

\* sep.join(parts)
RECURSIVE Join(_, _)
Join(sep, parts) ==
    IF parts = <<>> THEN Empty
    ELSE IF Len(parts) = 1 THEN parts[1]
    ELSE parts[1] \o sep \o Join(sep, Tail(parts))

----------------------------------------------------------------------------
(* The Atom feed *)

\* An element whose text is the literal s.
Text(s) == [text |-> Str(Ord(s))]
\* An element whose text is the code points t.
Chars(t) == [text |-> Str(t)]
NoText == [text |-> None]
Author(names) == [name |-> names]
Link(rel, href) == [rel |-> rel, href |-> href]

\* Articles the search endpoint can return.
EntryFull ==
    [title     |-> <<Text("Scaling laws")>>,
     summary   |-> <<Chars(Ord("Transformers scale with compute") \o <<160, 13, 10>>)>>,
     author    |-> <<Author(<<Text("Ada Lovelace")>>), Author(<<Text("Alan Turing")>>)>>,
     published |-> <<Text("2024-01-01T00:00:00Z")>>,
     link      |-> <<Link(Str(Ord("related")), Str(Ord("http://arxiv.org/pdf/2401.00001v1"))),
                     Link(Str(Ord("alternate")), Str(Ord("http://arxiv.org/abs/2401.00001v1")))>>]

EntryShort ==
    [title     |-> <<Text("Sparse attention")>>,
     summary   |-> <<Chars(<<8195>> \o Ord("Sparse attention in practice."))>>,
     author    |-> <<Author(<<Text("Grace Hopper")>>)>>,
     published |-> <<Text("2024-03-01T00:00:00Z")>>,
     link      |-> <<Link(Str(Ord("alternate")), Str(Ord("http://arxiv.org/abs/2403.00002v1")))>>]

EntryBare ==
    [title     |-> <<>>,
     summary   |-> <<>>,
     author    |-> <<>>,
     published |-> <<Text("2024-02-01T00:00:00Z")>>,
     link      |-> <<>>]

EntryUndated ==
    [title     |-> <<NoText>>,
     summary   |-> <<NoText>>,
     author    |-> <<Author(<<Text("Edsger Dijkstra")>>)>>,
     published |-> <<>>,
     link      |-> <<Link(Str(Ord("related")), Str(Ord("http://arxiv.org/pdf/2402.00004v1")))>>]

EntryThreshold ==
    [title     |-> <<Text("Calibration")>>,
     summary   |-> <<Text("Calibration of model certainty")>>,
     author    |-> <<Author(<<Text("Barbara Liskov")>>), Author(<<Text("Tony Hoare")>>)>>,
     published |-> <<Text("2024-01-01T00:00:00Z")>>,
     link      |-> <<Link(Str(Ord("alternate")), Str(Ord("http://arxiv.org/abs/2401.00005v1")))>>]

EntryAnonymous ==
    [title     |-> <<Text("Anonymous submission")>>,
     summary   |-> <<Text("Under double blind review.")>>,
     author    |-> <<Author(<<>>)>>,
     published |-> <<Text("2024-02-01T00:00:00Z")>>,
     link      |-> <<Link(Str(Ord("alternate")), None)>>]

Entries ==
    {EntryFull, EntryShort, EntryBare, EntryUndated, EntryThreshold, EntryAnonymous}

\* Lists of at most n distinct articles.
EntryLists(n) ==
    UNION {{es \in [1..k -> Entries] : \A i, j \in 1..k : es[i] = es[j] => i = j} : k \in 0..n}

\* The request parameters of fetch_arxiv_results.
QueryParams(search_term, start, max_results) ==
    [search_query |-> Ord("all:") \o search_term, start |-> start, max_results |-> max_results]

\* The endpoint echoes the query in the title of the feed.
FeedTitle(params) ==
    Ord("ArXiv Query: search_query=") \o params.search_query
        \o Ord("&id_list=&start=") \o Ord(ToString(params.start))
        \o Ord("&max_results=") \o Ord(ToString(params.max_results))

\* Character data as it stands in a document: the markup characters, the
\* quote and the tab, newline and carriage return, which a parser would
\* otherwise normalise, are written as references.  Every other character
\* stands for itself.
AmpRef == Ord("&amp;")
LtRef == Ord("&lt;")
GtRef == Ord("&gt;")
QuotRef == Ord("&quot;")
TabRef == Ord("&#9;")
NewlineRef == Ord("&#10;")
ReturnRef == Ord("&#13;")

RECURSIVE XmlEscape(_)
XmlEscape(s) ==
    IF s = Empty THEN Empty
    ELSE LET c == s[1]
         IN  (CASE c = 38 -> AmpRef
                [] c = 60 -> LtRef
                [] c = 62 -> GtRef
                [] c = 34 -> QuotRef
                [] c = 9  -> TabRef
                [] c = 10 -> NewlineRef
                [] c = 13 -> ReturnRef
                [] OTHER  -> <<c>>) \o XmlEscape(Drop(s, 2))

RECURSIVE Cat(_)
Cat(parts) == IF parts = <<>> THEN Empty ELSE Head(parts) \o Cat(Tail(parts))

\* <tag>text</tag>, or <tag/> for an element without text.
XmlText(tag, e) ==
    IF e.text = None THEN Ord("<") \o tag \o Ord("/>")
    ELSE Ord("<") \o tag \o Ord(">") \o XmlEscape(e.text[1]) \o Ord("</") \o tag \o Ord(">")

XmlAttr(key, v) ==
    IF v = None THEN Empty ELSE Ord(" ") \o key \o Ord("=\"") \o XmlEscape(v[1]) \o Ord("\"")

XmlLink(l) ==
    Ord("<link") \o XmlAttr(Ord("href"), l.href) \o XmlAttr(Ord("rel"), l.rel) \o Ord("/>")

XmlAuthor(a) ==
    Ord("<author>") \o Cat([i \in 1..Len(a.name) |-> XmlText(Ord("name"), a.name[i])])
        \o Ord("</author>")

XmlEntry(e) ==
    Ord("<entry>")
        \o Cat([i \in 1..Len(e.published) |-> XmlText(Ord("published"), e.published[i])])
        \o Cat([i \in 1..Len(e.title) |-> XmlText(Ord("title"), e.title[i])])
        \o Cat([i \in 1..Len(e.summary) |-> XmlText(Ord("summary"), e.summary[i])])
        \o Cat([i \in 1..Len(e.author) |-> XmlAuthor(e.author[i])])
        \o Cat([i \in 1..Len(e.link) |-> XmlLink(e.link[i])])
        \o Ord("</entry>")

FeedOpen == Ord("<feed xmlns=\"http://www.w3.org/2005/Atom\"><title>")
FeedClose == Ord("</feed>")

FeedHead(title) == FeedOpen \o XmlEscape(title) \o Ord("</title>")

\* The document the endpoint sends for a feed.
XmlFeed(feed) ==
    FeedHead(feed.title)
        \o Cat([i \in 1..Len(feed.entry) |-> XmlEntry(feed.entry[i])])
        \o FeedClose

\* A response body that is not a well-formed document.
TruncatedBody == FeedOpen \o Ord("ArXiv Qu")

----------------------------------------------------------------------------
(* User input *)

MinCount == 1
DefaultCount == 10
MaxCount == 100

ErrorMarker == Ord("An error occurred")

\* What the user can have typed in the query field.
Terms == {Empty, Ord("llm"), ErrorMarker}

\* What the count field can hold.
Counts == {MinCount, DefaultCount, MaxCount}

TestParams == QueryParams(Ord("confidence"), 0, 5)

AllParams == {TestParams} \cup {QueryParams(t, 0, n) : t \in Terms \ {Empty}, n \in Counts}

\* The documents of the articles and the heads of the feeds a response can
\* hold, each with what it is the document of.
EntryDocuments == {<<e, XmlEntry(e)>> : e \in Entries}
FeedHeads == {<<FeedTitle(p), FeedHead(FeedTitle(p))>> : p \in AllParams}

\* The entry elements that `rest` holds up to the end tag of the feed, in
\* order: <<entries>>, or <<>> when `rest` is not a run of entry elements
\* followed by that end tag.
RECURSIVE EntryElements(_)
EntryElements(rest) ==
    IF rest = FeedClose THEN <<<<>>>>
    ELSE LET first == {d \in EntryDocuments : StartsWith(rest, d[2])}
         IN  IF first = {} THEN <<>>
             ELSE LET d == CHOOSE x \in first : TRUE
                      others == EntryElements(Drop(rest, Len(d[2]) + 1))
                  IN  IF others = <<>> THEN <<>> ELSE <<<<d[1]>> \o others[1]>>

\* ET.fromstring: the tree of a well-formed document, else a ParseError.
\* <<feed>> is the root element, <<>> the ParseError.
FromString(xml_data) ==
    LET heads == {h \in FeedHeads : StartsWith(xml_data, h[2])}
    IN  IF heads = {} THEN <<>>
        ELSE LET head == CHOOSE h \in heads : TRUE
                 entry == EntryElements(Drop(xml_data, Len(head[2]) + 1))
             IN  IF entry = <<>> THEN <<>> ELSE <<[title |-> head[1], entry |-> entry[1]]>>

----------------------------------------------------------------------------
(* Summarization *)

\* summarizer(text, ...)[0]['summary_text']: what the pipeline answers.  The
\* pipeline is a pre-trained model outside the script; its answer is a text
\* that is a function of the input text.
SummaryText(text) == Ord("Summary: ") \o SubSeq(text, 1, 12)

\* The arguments of one call of the pipeline.
PipelineCall(text, max_length, min_length) ==
    [text |-> text, max_length |-> max_length, min_length |-> min_length, truncation |-> TRUE]

\* summarize_text with the test len(text) >= min_length.
summarize_text_inclusive(text) ==
    IF Truthy(text) /\ Len(text[1]) >= DefaultMinLength
    THEN [value |-> Str(SummaryText(text[1])),
          calls |-> <<PipelineCall(text[1], DefaultMaxLength, DefaultMinLength)>>]
    ELSE [value |-> text, calls |-> <<>>]

\* summarize_text(text) with its default bounds: the value returned and the
\* calls of the pipeline it made.
summarize_text(text) ==
    IF Truthy(text) /\ Len(text[1]) > DefaultMinLength
    THEN [value |-> Str(SummaryText(text[1])),
          calls |-> <<PipelineCall(text[1], DefaultMaxLength, DefaultMinLength)>>]
    ELSE [value |-> text, calls |-> <<>>]

----------------------------------------------------------------------------
(* parse_arxiv_to_polars_and_summarize *)

NoException == "none"
FallbackSummary == Ord("No summaries available.")

\* entry.find(tag).text if entry.find(tag) is not None else None
FindText(nodes) == IF nodes # <<>> THEN nodes[1].text ELSE None

IsAlternate(l) == l.rel = Str(Ord("alternate"))

\* entry.find('atom:link[@rel="alternate"]'): a sequence of at most one link.
FindAlternate(links) ==
    LET alt == SelectSeq(links, IsAlternate) IN IF alt = <<>> THEN <<>> ELSE <<alt[1]>>

\* One iteration of the loop over the entries.  acc holds the locals of the
\* function: entries, all_summaries, the pipeline calls made so far and the
\* exception that ended the function, if any.
EntryStep(entry, acc) ==
    LET title     == FindText(entry.title)
        summary   == FindText(entry.summary)
        nameless  == \E i \in 1..Len(entry.author) : entry.author[i].name = <<>>
        authors   == [i \in 1..Len(entry.author) |-> entry.author[i].name[1].text]
        published == FindText(entry.published)
        alt       == FindAlternate(entry.link)
        link      == IF alt # <<>> THEN alt[1].href ELSE None
        all       == IF Truthy(summary)
                     THEN acc.all_summaries \o Ord(" ") \o Strip(summary[1])
                     ELSE acc.all_summaries
        concise   == IF Truthy(summary) THEN summarize_text(summary)
                     ELSE [value |-> None, calls |-> <<>>]
    IN  IF nameless THEN [acc EXCEPT !.raised = "AttributeError"]
        ELSE IF alt # <<>> /\ alt[1].href = None THEN [acc EXCEPT !.raised = "KeyError"]
        ELSE IF \E i \in 1..Len(authors) : authors[i] = None
        THEN [acc EXCEPT !.raised = "TypeError",
                         !.all_summaries = all,
                         !.calls = @ \o concise.calls]
        ELSE [acc EXCEPT !.entries = Append(@,
                             [title     |-> title,
                              summary   |-> concise.value,
                              authors   |-> Join(Ord(", "), [i \in 1..Len(authors) |-> authors[i][1]]),
                              published |-> published,
                              link      |-> link]),
                         !.all_summaries = all,
                         !.calls = @ \o concise.calls]

RECURSIVE ForEntries(_, _)
ForEntries(es, acc) ==
    IF es = <<>> \/ acc.raised # NoException THEN acc
    ELSE ForEntries(Tail(es), EntryStep(Head(es), acc))

\* Whether a may stand right before b in a column sorted descending.  The
\* place of the nulls depends on the version of the library: first or last.
InOrder(a, b, nulls_first) ==
    IF a = None THEN nulls_first \/ b = None
    ELSE IF b = None THEN ~nulls_first
    ELSE ~StrLess(a[1], b[1])

\* The sort without descending=True.
SortOutcomesAscending(entries) ==
    LET n == Len(entries)
        Frame(p) == [i \in 1..n |-> entries[p[i]]]
        Sorted(df, nf) ==
            \A i \in 1..(n - 1) : InOrder(df[i + 1].published, df[i].published, ~nf)
    IN  {Frame(p) : p \in {q \in Permutations(1..n) :
                              \E nf \in BOOLEAN : Sorted(Frame(q), nf)}}

\* pl.DataFrame(entries).sort('published', descending=True): the frames the
\* sort can return.  The sort does not maintain the order of equal keys.
SortOutcomes(entries) ==
    LET n == Len(entries)
        Frame(p) == [i \in 1..n |-> entries[p[i]]]
        Sorted(df, nf) ==
            \A i \in 1..(n - 1) : InOrder(df[i].published, df[i + 1].published, nf)
    IN  {Frame(p) : p \in {q \in Permutations(1..n) :
                              \E nf \in BOOLEAN : Sorted(Frame(q), nf)}}

\* The outcomes of parse_arxiv_to_polars_and_summarize(xml_data): each is the
\* exception raised or the pair (df, overall_summary) returned, with the tree
\* that was parsed and the pipeline calls that were made.
parse_arxiv_to_polars_and_summarize(xml_data) ==
    LET root == FromString(xml_data)
        Raise(exc, loop) ==
            [raised |-> exc, root |-> root, df |-> <<>>, overall_summary |-> None,
             calls |-> loop.calls]
        start == [entries |-> <<>>, all_summaries |-> Empty, calls |-> <<>>,
                  raised |-> NoException]
    IN  IF root = <<>> THEN {Raise("ParseError", start)}
        ELSE LET loop == ForEntries(root[1].entry, start)
                 overall == IF loop.all_summaries # Empty
                            THEN summarize_text(Str(loop.all_summaries))
                            ELSE [value |-> Str(FallbackSummary), calls |-> <<>>]
             IN  IF loop.raised # NoException THEN {Raise(loop.raised, loop)}
                 ELSE IF loop.entries = <<>> THEN {Raise("ColumnNotFoundError", loop)}
                 ELSE {[raised |-> NoException, root |-> root, df |-> df,
                        overall_summary |-> overall.value,
                        calls |-> loop.calls \o overall.calls] :
                           df \in SortOutcomes(loop.entries)}

----------------------------------------------------------------------------
(* fetch_arxiv_results and the network *)

\* Why urlopen or the decoding of the body can fail.
Reasons == {Ord("<urlopen error [Errno -2] Name or service not known>"),
            Ord("HTTP Error 503: Service Unavailable")}

\* The feeds the script is run against: lists of articles the endpoint returns.
ScriptLists ==
    {<<>>, <<EntryFull>>, <<EntryShort, EntryThreshold>>, <<EntryBare, EntryUndated>>}

\* What the network can do with a request: fail with a reason, or answer with
\* a body: the feed of a list of articles, or a body cut short.
Network(params, lists) ==
    {[ok |-> FALSE, data |-> r] : r \in Reasons}
        \cup {[ok |-> TRUE, data |-> XmlFeed([title |-> FeedTitle(params), entry |-> es])] :
                 es \in lists}
        \cup {[ok |-> TRUE, data |-> TruncatedBody]}

\* fetch_arxiv_results returning the description of the failure alone.
fetch_arxiv_results_unmarked(outcome) == outcome.data

\* The text fetch_arxiv_results returns when the network did `outcome`.
fetch_arxiv_results(outcome) ==
    IF outcome.ok THEN outcome.data ELSE Ord("An error occurred: ") \o outcome.data

\* The test xml_results.startswith("An error occurred").
IsErrorAtStart(xml_results) == StartsWith(xml_results, ErrorMarker)

\* "An error occurred" in xml_results
IsError(xml_results) == Contains(xml_results, ErrorMarker)

\* load_summarization_model() without @st.cache_resource.
load_summarization_model_uncached(cache, pipelines) ==
    [cache |-> <<pipelines + 1>>, pipelines |-> pipelines + 1]

\* load_summarization_model() under @st.cache_resource: the pipeline is
\* constructed when the cache of the process holds none, and the cached one is
\* returned otherwise.  cache is a sequence of at most one instance; an
\* instance is named by the number of pipelines constructed so far.
load_summarization_model(cache, pipelines) ==
    IF cache = <<>>
    THEN [cache |-> <<pipelines + 1>>, pipelines |-> pipelines + 1]
    ELSE [cache |-> cache, pipelines |-> pipelines]

----------------------------------------------------------------------------
(* The script: one run is one interaction cycle *)

VARIABLES
    pc,              \* where the run of the script stands
    cycle,           \* the number of the run, from 1
    cache,           \* the st.cache_resource store of the process
    pipelines,       \* how many pipelines the process has constructed
    needed,          \* whether summarize_text has ever had to call the pipeline
    summarizer,      \* the global summarizer: None before line 78
    requests,        \* the requests issued in this run, in order
    testing,         \* the global testing: None before line 64
    search_term,     \* the query field: None before line 152
    search_count,    \* the count field: None before line 153
    response,        \* what the network did with the request of line 158, None before
    xml_results,     \* the global xml_results: None before line 158
    parse_input,     \* the argument of the call of the parser, None if not called
    root,            \* the tree the parser built, None if it built none
    raised,          \* the exception that ended the run
    df,              \* the global df: the rows of the frame
    overall_summary, \* the global overall_summary
    pipeline_calls,  \* the calls of the pipeline in this run
    display          \* what the page shows for the query

vars == <<pc, cycle, cache, pipelines, needed, summarizer, requests, testing,
          search_term, search_count, response, xml_results, parse_input, root,
          raised, df, overall_summary, pipeline_calls, display>>

process_vars == <<cache, pipelines, needed>>
input_vars == <<search_term, search_count>>
fetch_vars == <<response, xml_results>>
parse_vars == <<parse_input, root, raised, df, overall_summary, pipeline_calls>>

\* The state of a run that has not executed anything yet.
Fresh ==
    /\ pc = "start"
    /\ summarizer = None
    /\ requests = <<>>
    /\ testing = None
    /\ search_term = None
    /\ search_count = None
    /\ response = None
    /\ xml_results = None
    /\ parse_input = None
    /\ root = None
    /\ raised = NoException
    /\ df = <<>>
    /\ overall_summary = None
    /\ pipeline_calls = <<>>
    /\ display = "nothing"

Init ==
    /\ Fresh
    /\ cycle = 1
    /\ cache = <<>>
    /\ pipelines = 0
    /\ needed = FALSE

\* Lines 64-65: testing = fetch_arxiv_results("confidence", max_results=5)
TestFetch ==
    /\ pc = "start"
    /\ requests' = Append(requests, TestParams)
    /\ \E outcome \in Network(TestParams, ScriptLists) :
           testing' = Str(fetch_arxiv_results(outcome))
    /\ pc' = "load"
    /\ UNCHANGED <<cycle, process_vars, summarizer, input_vars, fetch_vars, parse_vars, display>>

\* Line 78: summarizer = load_summarization_model()
LoadModel ==
    /\ pc = "load"
    /\ LET loaded == load_summarization_model(cache, pipelines)
       IN  /\ cache' = loaded.cache
           /\ pipelines' = loaded.pipelines
           /\ summarizer' = loaded.cache
    /\ pc' = "input"
    /\ UNCHANGED <<cycle, needed, requests, testing, input_vars, fetch_vars, parse_vars, display>>

\* Lines 152-153: the widgets return what the user has entered.
ReadInputs ==
    /\ pc = "input"
    /\ \E term \in Terms, count \in Counts :
           /\ search_term' = Str(term)
           /\ search_count' = Str(count)
    /\ pc' = "query"
    /\ UNCHANGED <<cycle, process_vars, summarizer, requests, testing, fetch_vars, parse_vars, display>>

\* Line 156, search_term empty: the run ends.
NoQuery ==
    /\ pc = "query"
    /\ ~Truthy(search_term)
    /\ pc' = "done"
    /\ UNCHANGED <<cycle, process_vars, summarizer, requests, testing, input_vars, fetch_vars, parse_vars, display>>

\* Lines 156-158: xml_results = fetch_arxiv_results(search_term, max_results=int(search_count))
Fetch ==
    /\ pc = "query"
    /\ Truthy(search_term)
    /\ LET params == QueryParams(search_term[1], 0, search_count[1])
       IN  /\ requests' = Append(requests, params)
           /\ \E outcome \in Network(params, ScriptLists) :
                  /\ response' = <<outcome>>
                  /\ xml_results' = Str(fetch_arxiv_results(outcome))
    /\ pc' = "fetched"
    /\ UNCHANGED <<cycle, process_vars, summarizer, testing, input_vars, parse_vars, display>>

\* Lines 160-161: st.error(xml_results)
ShowError ==
    /\ pc = "fetched"
    /\ IsError(xml_results[1])
    /\ display' = "error"
    /\ pc' = "done"
    /\ UNCHANGED <<cycle, process_vars, summarizer, requests, testing, input_vars, fetch_vars, parse_vars>>

\* Lines 162-163: df, overall_summary = parse_arxiv_to_polars_and_summarize(xml_results).
\* An exception of the call is not caught: it ends the run and the page shows it.
Parse ==
    /\ pc = "fetched"
    /\ ~IsError(xml_results[1])
    /\ parse_input' = xml_results
    /\ \E out \in parse_arxiv_to_polars_and_summarize(xml_results[1]) :
           /\ root' = out.root
           /\ raised' = out.raised
           /\ df' = out.df
           /\ overall_summary' = out.overall_summary
           /\ pipeline_calls' =
                  [i \in 1..Len(out.calls) |-> [instance |-> summarizer, args |-> out.calls[i]]]
           /\ needed' = (needed \/ out.calls # <<>>)
           /\ IF out.raised # NoException
              THEN display' = "exception" /\ pc' = "done"
              ELSE display' = display /\ pc' = "parsed"
    /\ UNCHANGED <<cycle, cache, pipelines, summarizer, requests, testing, input_vars, fetch_vars>>

\* Lines 165-172: the table and the overall summary, or the warning.
Display ==
    /\ pc = "parsed"
    /\ display' = IF df # <<>> THEN "results" ELSE "warning"
    /\ pc' = "done"
    /\ UNCHANGED <<cycle, process_vars, summarizer, requests, testing, input_vars, fetch_vars, parse_vars>>

\* An interaction of the user: the runtime runs the script again from the top,
\* in the same process.
Rerun ==
    /\ pc = "done"
    /\ cycle < MaxCycles
    /\ cycle' = cycle + 1
    /\ pc' = "start"
    /\ summarizer' = None
    /\ requests' = <<>>
    /\ testing' = None
    /\ search_term' = None
    /\ search_count' = None
    /\ response' = None
    /\ xml_results' = None
    /\ parse_input' = None
    /\ root' = None
    /\ raised' = NoException
    /\ df' = <<>>
    /\ overall_summary' = None
    /\ pipeline_calls' = <<>>
    /\ display' = "nothing"
    /\ UNCHANGED process_vars

Next ==
    \/ TestFetch
    \/ LoadModel
    \/ ReadInputs
    \/ NoQuery
    \/ Fetch
    \/ ShowError
    \/ Parse
    \/ Display
    \/ Rerun

Spec == Init /\ [][Next]_vars

----------------------------------------------------------------------------
(* The parser on every feed of at most MaxEntries articles *)

\* A run that has fetched the feed of a list of articles for the query "llm".
InitParse ==
    /\ pc = "fetched"
    /\ cycle = 1
    /\ cache = <<1>>
    /\ pipelines = 1
    /\ needed = FALSE
    /\ summarizer = <<1>>
    /\ LET params == QueryParams(Ord("llm"), 0, DefaultCount)
       IN  /\ requests = <<TestParams, params>>
           /\ \E outcome \in {o \in Network(params, EntryLists(MaxEntries)) : o.ok} :
                  /\ response = <<outcome>>
                  /\ xml_results = Str(fetch_arxiv_results(outcome))
    /\ testing = Str(TruncatedBody)
    /\ search_term = Str(Ord("llm"))
    /\ search_count = Str(DefaultCount)
    /\ parse_input = None
    /\ root = None
    /\ raised = NoException
    /\ df = <<>>
    /\ overall_summary = None
    /\ pipeline_calls = <<>>
    /\ display = "nothing"

NextParse == Parse \/ Display

SpecParse == InitParse /\ [][NextParse]_vars

----------------------------------------------------------------------------
(* What the claims speak of *)

\* The run has called the parser on a well-formed document.
Parsed == parse_input # None /\ root # None

\* The items of the document the parser was called on.
Items == root[1].entry

\* The text of the first child of an item with a tag, None without one.
ItemText(nodes) == IF Len(nodes) = 0 THEN None ELSE nodes[1].text

\* The href of the first link of an item whose rel is alternate.
ItemLink(item) ==
    LET alts == {i \in 1..Len(item.link) : item.link[i].rel = <<Ord("alternate")>>}
    IN  IF alts = {} THEN None
        ELSE item.link[CHOOSE i \in alts : \A j \in alts : i <= j].href

\* The abstract of an item, if it has a non-empty one.
HasAbstract(item) == ItemText(item.summary) # None /\ ItemText(item.summary) # <<Empty>>

\* Every author of the item has a name and every alternate link an href.
WellFormed(item) ==
    /\ \A i \in 1..Len(item.author) :
           item.author[i].name # <<>> /\ item.author[i].name[1].text # None
    /\ \A i \in 1..Len(item.link) :
           item.link[i].rel = <<Ord("alternate")>> => item.link[i].href # None

\* The names of the authors of an item, one after the other, with ", " between.
RECURSIVE NamesFrom(_, _)
NamesFrom(item, i) ==
    IF i > Len(item.author) THEN Empty
    ELSE item.author[i].name[1].text[1]
             \o (IF i < Len(item.author) THEN Ord(", ") ELSE Empty)
             \o NamesFrom(item, i + 1)

\* The abstracts of the items from the i-th on, each stripped and after a space.
RECURSIVE AbstractsFrom(_)
AbstractsFrom(i) ==
    IF i > Len(Items) THEN Empty
    ELSE (IF HasAbstract(Items[i]) THEN Ord(" ") \o Strip(ItemText(Items[i].summary)[1])
          ELSE Empty)
             \o AbstractsFrom(i + 1)

\* The row is the record of the item: title, published and link are the item's.
RecordOf(row, item) ==
    /\ row.title = ItemText(item.title)
    /\ row.published = ItemText(item.published)
    /\ row.link = ItemLink(item)

\* The ways the frame is a reordering of the items: p[i] is the item of row i.
Reorderings ==
    {p \in Permutations(1..Len(Items)) :
        /\ Len(df) = Len(Items)
        /\ \A i \in 1..Len(Items) : RecordOf(df[i], Items[p[i]])}

----------------------------------------------------------------------------
(* The claims *)

\* C1: when every item of the document has a published timestamp, the records
\* the parser returns are a reordering of the items in which no record is
\* published before the record that follows it.
C1_SortedByPublishedDescending ==
    (/\ Parsed
     /\ raised = NoException
     /\ \A i \in 1..Len(Items) : ItemText(Items[i].published) # None)
        => /\ Reorderings # {}
           /\ \A i \in 1..(Len(df) - 1) : ~StrLess(df[i].published[1], df[i + 1].published[1])

\* C1 witness: items of January, March and February shown as March, February, January.
C1_Witness ==
    /\ Parsed
    /\ display = "results"
    /\ Items = <<EntryFull, EntryShort, EntryBare>>
    /\ [i \in 1..Len(df) |-> df[i].published] =
           <<Str(Ord("2024-03-01T00:00:00Z")), Str(Ord("2024-02-01T00:00:00Z")),
             Str(Ord("2024-01-01T00:00:00Z"))>>

\* C2: a run whose document parses and has zero items ends showing the warning,
\* with an empty result and no uncaught failure.
C2_NoResultsWarning ==
    (pc = "done" /\ Parsed /\ Items = <<>>)
        => display = "warning" /\ df = <<>> /\ raised = NoException

\* C3: every request of a run carries the term and the count the user entered
\* in that run, a non-empty term, and a run issues at most one request.
C3_RequestsCarryUserQuery ==
    /\ Len(requests) <= 1
    /\ \A i \in 1..Len(requests) :
           /\ Truthy(search_term)
           /\ requests[i] = [search_query |-> Ord("all:") \o search_term[1], start |-> 0,
                             max_results |-> search_count[1]]

\* C4 (as claimed): the process constructs at most one pipeline, none before
\* summarize_text has had to call it, and every call uses that one.
C4_LazyOnFirstNeed ==
    /\ pipelines <= 1
    /\ pipelines > 0 => needed
    /\ \A i \in 1..Len(pipeline_calls) : pipeline_calls[i].instance = <<1>>

\* C4 (amended): the process constructs exactly one pipeline, at line 78 of
\* its first run whether or not a query is entered, and every later run and
\* every call of the pipeline uses that one.
C4_OnceAtFirstRun ==
    /\ pipelines <= 1
    /\ (cycle > 1 \/ pc \notin {"start", "load"}) => pipelines = 1
    /\ summarizer # None => summarizer = <<1>>
    /\ \A i \in 1..Len(pipeline_calls) : pipeline_calls[i].instance = <<1>>

\* C4 witness: a run after the first calls the pipeline.
C4_Witness == cycle > 1 /\ pipeline_calls # <<>> /\ pipelines = 1

\* C5: once the fetched text is classified, a text that contains the marker is
\* shown as an error with the parser and the pipeline not called in the run,
\* and a text without the marker has been passed to the parser.
C5_ErrorShortCircuits ==
    (pc \in {"parsed", "done"} /\ xml_results # None)
        => IF Contains(xml_results[1], Ord("An error occurred"))
           THEN display = "error" /\ parse_input = None /\ pipeline_calls = <<>>
           ELSE parse_input = xml_results

\* C5 witness: a failed fetch shown as an error.
C5_Witness ==
    /\ pc = "done"
    /\ display = "error"
    /\ response # None
    /\ ~response[1].ok
    /\ parse_input = None

\* C6 (as claimed): the fetch returns the body without the marker on success
\* and the marker followed by the description on failure, and the run shows
\* an error exactly when the fetch failed.
C6_ErrorExactlyOnFailure ==
    response # None
        => /\ xml_results # None
           /\ response[1].ok =>
                  /\ xml_results[1] = response[1].data
                  /\ ~Contains(xml_results[1], Ord("An error occurred"))
           /\ ~response[1].ok =>
                  xml_results[1] = Ord("An error occurred: ") \o response[1].data
           /\ pc = "done" => (display = "error" <=> ~response[1].ok)

\* C6 (amended): the fetch returns the body verbatim on success and the marker
\* followed by the description on failure; the run shows an error for every
\* failed fetch, and for a successful one exactly when its body contains the
\* marker.
C6_ErrorOnFailureOrMarkedBody ==
    response # None
        => /\ xml_results # None
           /\ response[1].ok => xml_results[1] = response[1].data
           /\ ~response[1].ok =>
                  xml_results[1] = Ord("An error occurred: ") \o response[1].data
           /\ pc = "done" =>
                  (display = "error"
                      <=> (~response[1].ok \/ Contains(response[1].data, Ord("An error occurred"))))

\* C6 witness: a successful fetch whose body echoes a query that contains the
\* marker, shown as an error.
C6_Witness ==
    /\ pc = "done"
    /\ response # None
    /\ response[1].ok
    /\ xml_results = <<response[1].data>>
    /\ display = "error"

\* C7: when no item of the document has a non-empty abstract, the overall
\* summary is the fallback text and the pipeline is not called, for any number
\* of items.
C7_FallbackWithoutAbstracts ==
    (/\ pc \in {"parsed", "done"}
     /\ Parsed
     /\ \A i \in 1..Len(Items) : ~HasAbstract(Items[i]))
        => /\ overall_summary = <<Ord("No summaries available.")>>
           /\ pipeline_calls = <<>>

\* C8: the pipeline is called only with texts longer than 30 characters; an
\* abstract that is absent, empty or of at most 30 characters is the summary
\* of its record unchanged, and an aggregate of at most 30 characters is the
\* overall summary unchanged.
C8_PipelineOnlyAboveMinLength ==
    (Parsed /\ raised = NoException)
        => /\ \A i \in 1..Len(pipeline_calls) : Len(pipeline_calls[i].args.text) > 30
           /\ \E p \in Reorderings :
                  \A i \in 1..Len(df) :
                      LET abstract == ItemText(Items[p[i]].summary)
                      IN  (abstract = None \/ Len(abstract[1]) <= 30)
                              => df[i].summary = abstract
           /\ (AbstractsFrom(1) # Empty /\ Len(AbstractsFrom(1)) <= 30)
                  => overall_summary = <<AbstractsFrom(1)>>

\* C8 witness: an abstract of exactly 30 characters kept unchanged next to an
\* abstract of 31 characters that was summarized.
C8_Witness ==
    /\ Parsed
    /\ raised = NoException
    /\ \E i, j \in 1..Len(df) :
           /\ df[i].summary = <<Ord("Calibration of model certainty")>>
           /\ df[j].summary = <<Ord("Summary: Transformers")>>
    /\ \E i \in 1..Len(pipeline_calls) :
           pipeline_calls[i].args.text = Ord("Transformers scale with compute") \o <<160, 13, 10>>

\* C9: the parser returns one record for each of the N items of the document,
\* for every N >= 0, whichever of the title, abstract, published and link
\* nodes are absent: the field of an absent node is absent and the value of a
\* present node is in the record.
C9_OneRecordPerItem ==
    (/\ pc \in {"parsed", "done"}
     /\ Parsed
     /\ \A i \in 1..Len(Items) : WellFormed(Items[i]))
        => /\ raised = NoException
           /\ \E p \in Reorderings :
                  \A i \in 1..Len(df) :
                      (df[i].summary = None) <=> (ItemText(Items[p[i]].summary) = None)

\* C10: the authors of a record are the names of the author nodes of its item
\* in document order, joined with ", "; they are "" for an item without
\* authors, wherever the sort puts the record.
C10_AuthorsJoined ==
    (Parsed /\ raised = NoException)
        => \E p \in Reorderings :
               \A i \in 1..Len(df) :
                   /\ df[i].authors = NamesFrom(Items[p[i]], 1)
                   /\ Items[p[i]].author = <<>> => df[i].authors = Empty

\* C10 witness: a record with two authors and a record with none, in the
\* reverse of the order of their items.
C10_Witness ==
    /\ Parsed
    /\ display = "results"
    /\ Items = <<EntryFull, EntryBare>>
    /\ df[1].authors = Empty
    /\ df[2].authors = Ord("Ada Lovelace, Alan Turing")

====
